---- MODULE Spec2Model ----
(***************************************************************************)
(* Force-directed layout engine of tkCanvasGraph                           *)
(* (src/src/canvasGraph/layout.py): OneStepForceBasedLayout and            *)
(* ForceBasedLayout.                                                       *)
(*                                                                         *)
(* Python floats are modelled as fixed-point numbers: the integer r stands *)
(* for the real r / Scale.  Multiplication, division and square root       *)
(* round toward zero, which like IEEE rounding is symmetric under          *)
(* negation (-(a/b) = (-a)/b).  A float division whose divisor is exactly  *)
(* zero raises ZeroDivisionError in Python; here every operator returns    *)
(* a record whose field "raised" names the exception, if any.              *)
(***************************************************************************)
EXTENDS Integers, Sequences, FiniteSets, TLC

(***************************************************************************)
(* Bounds of the model.                                                    *)
(***************************************************************************)
\* resolution of the fixed-point numbers: 1 / Scale
Scale == 100
\* coordinates range over -MaxCoord .. MaxCoord (pixels)
MaxCoord == 150
\* largest slope |dy / dx| between two centers that are not vertically aligned
MaxSlope == 20
\* largest number of chained single steps
MaxSteps == 2
\* largest iterationNumber given to ForceBasedLayout
MaxIterationNumber == 2

(***************************************************************************)
(* Fixed-point arithmetic.                                                 *)
(***************************************************************************)
Abs(a) == IF a < 0 THEN -a ELSE a

Sign(a) == IF a < 0 THEN -1 ELSE 1

Max(a, b) == IF a >= b THEN a ELSE b

Min(a, b) == IF a <= b THEN a ELSE b

\* a / b on integers, rounded toward zero (b # 0)
Quot(a, b) == Sign(a) * Sign(b) * (Abs(a) \div Abs(b))

\* the float <px> of an integer number of pixels
Fx(px) == px * Scale

\* float product a * b
Mul(a, b) == Quot(a * b, Scale)

\* float quotient a / b (b # 0)
Div(a, b) == Quot(a * Scale, b)

RECURSIVE ISqrtBetween(_, _, _)
\* the largest r in lo .. hi with r * r <= n, given lo * lo <= n
ISqrtBetween(n, lo, hi) ==
    IF lo >= hi THEN lo
    ELSE LET mid == (lo + hi + 1) \div 2
         IN  IF mid * mid <= n THEN ISqrtBetween(n, mid, hi)
                               ELSE ISqrtBetween(n, lo, mid - 1)

\* math.sqrt(a) for a float a >= 0
Sqrt(a) == ISqrtBetween(a * Scale, 0, 46340)

(***************************************************************************)
(* The vertices and their sizes.                                           *)
(***************************************************************************)
Nodes == {"a", "b", "c"}

\* vertex.dimensions(): the width and height of the drawn vertex, in pixels
Dimensions(vertex) == IF vertex = "c" THEN <<40, 20>> ELSE <<20, 20>>

\* the parameters set by OneStepForceBasedLayout.__init__
minSpringLength == 60

springStiffness == Scale \div 10

\* self.electricalRepulsion: an attribute the caller may set, 500 at first
VARIABLE electricalRepulsion

maxForce == 10

\* a * b < 0 on floats: decided by the signs of a and b
NegativeProduct(a, b) == (a < 0 /\ b > 0) \/ (a > 0 /\ b < 0)

\* Clamp without the clamp
ClampOff(force) == force

\* max(min(force, maxForce), -maxForce)
Clamp(force) == Max(Min(force, Fx(maxForce)), -Fx(maxForce))

(***************************************************************************)
(* OneStepForceBasedLayout._distance_vector_from                           *)
(*                                                                         *)
(* The function is split into stages, each receiving the locals computed   *)
(* so far as parameters: vc, oc are the centers of vertex and other, vh,   *)
(* oh their half-axes [a, b], m the slope, denv and deno the two square    *)
(* roots.                                                                  *)
(***************************************************************************)
\* av = xv1 - xvc where xv1 = xvc + vw/2
HalfExtent(center, size) == (center + Quot(Fx(size), 2)) - center

\* the four offsets and the returned boundary points, xoc # xvc
OffsetVector(vc, vh, oc, oh, m, denv, deno) ==
    IF denv = 0 \/ deno = 0
    THEN [raised |-> "ZeroDivisionError"]
    ELSE [raised |-> "none",
          dx0 |-> vc[1] + Div(Mul(vh.a, vh.b), denv)
                            * (IF oc[1] < vc[1] THEN -1 ELSE 1),
          dy0 |-> vc[2] + Div(Mul(Mul(vh.a, vh.b), m), denv)
                            * (IF oc[2] < vc[2] THEN -1 ELSE 1),
          dx1 |-> oc[1] + Div(Mul(oh.a, oh.b), deno)
                            * (IF oc[1] > vc[1] THEN -1 ELSE 1),
          dy1 |-> oc[2] + Div(Mul(Mul(oh.a, oh.b), m), deno)
                            * (IF oc[2] > vc[2] THEN -1 ELSE 1)]

\* SlantedVector with the half-axes of vertex used for other as well
SlantedVectorSameAxes(vc, vh, oc, oh, m) ==
    OffsetVector(vc, vh, oc, vh, m,
        Sqrt(Mul(Mul(Mul(vh.a, vh.a), m), m) + Mul(vh.b, vh.b)),
        Sqrt(Mul(Mul(Mul(vh.a, vh.a), m), m) + Mul(vh.b, vh.b)))

\* math.sqrt(av*av * m*m + bv*bv) and math.sqrt(ao*ao * m*m + bo*bo)
SlantedVector(vc, vh, oc, oh, m) ==
    OffsetVector(vc, vh, oc, oh, m,
        Sqrt(Mul(Mul(Mul(vh.a, vh.a), m), m) + Mul(vh.b, vh.b)),
        Sqrt(Mul(Mul(Mul(oh.a, oh.a), m), m) + Mul(oh.b, oh.b)))

\* if xoc != xvc: ... else: ...
BoundaryVector(vc, vh, oc, oh) ==
    IF oc[1] # vc[1]
    THEN SlantedVector(vc, vh, oc, oh,
                       Abs(Div(oc[2] - vc[2], oc[1] - vc[1])))
    ELSE [raised |-> "none",
          dx0 |-> vc[1],
          dy0 |-> vc[2] + vh.b * (IF oc[2] < vc[2] THEN -1 ELSE 1),
          dx1 |-> oc[1],
          dy1 |-> oc[2] + oh.b * (IF oc[2] > vc[2] THEN -1 ELSE 1)]

\* positions[vertex] and positions[other] raise KeyError on a missing key
DistanceVectorFrom(positions, vertex, other) ==
    IF vertex \notin DOMAIN positions \/ other \notin DOMAIN positions
    THEN [raised |-> "KeyError"]
    ELSE BoundaryVector(
            positions[vertex],
            [a |-> HalfExtent(positions[vertex][1], Dimensions(vertex)[1]),
             b |-> HalfExtent(positions[vertex][2], Dimensions(vertex)[2])],
            positions[other],
            [a |-> HalfExtent(positions[other][1], Dimensions(other)[1]),
             b |-> HalfExtent(positions[other][2], Dimensions(other)[2])])

\* fx = force * dx; fy = force * dy; return fx, fy
ForceVector(force, dx, dy) ==
    [raised |-> "none", fx |-> Mul(force, dx), fy |-> Mul(force, dy),
     force |-> force, dx |-> dx, dy |-> dy]

(***************************************************************************)
(* OneStepForceBasedLayout._hooke_attraction                               *)
(***************************************************************************)
\* AttractionAt with the opposite sign: a spring that pushes
AttractionAtRepelling(dx, dy, distance, centers) ==
    IF distance = 0
    THEN [raised |-> "ZeroDivisionError"]
    ELSE ForceVector(
            Clamp(Div(Mul(springStiffness,
                          Max(centers - distance, Fx(minSpringLength))
                             - distance),
                      distance)),
            dx, dy)

\* length = max(centers - distance, minSpringLength);
\* force = -springStiffness * (length - distance) / distance, clamped
AttractionAt(dx, dy, distance, centers) ==
    IF distance = 0
    THEN [raised |-> "ZeroDivisionError"]
    ELSE ForceVector(
            Clamp(Div(Mul(-springStiffness,
                          Max(centers - distance, Fx(minSpringLength))
                             - distance),
                      distance)),
            dx, dy)

\* distance = sqrt(dx*dx + dy*dy); sqrt(dcx*dcx + dcy*dcy)
AttractionAlong(dx, dy, dcx, dcy) ==
    AttractionAt(dx, dy, Sqrt(Mul(dx, dx) + Mul(dy, dy)),
                         Sqrt(Mul(dcx, dcx) + Mul(dcy, dcy)))

\* the overlap test on the distance vector dv, then dx, dy = dx1-dx0, dy1-dy0
AttractionFrom(positions, vertex, other, dv) ==
    IF dv.raised # "none" THEN [raised |-> dv.raised]
    ELSE IF \/ NegativeProduct(positions[other][1] - positions[vertex][1],
                               dv.dx1 - dv.dx0)
            \/ NegativeProduct(positions[other][2] - positions[vertex][2],
                               dv.dy1 - dv.dy0)
    THEN ForceVector(0, 0, 0)
    ELSE AttractionAlong(dv.dx1 - dv.dx0, dv.dy1 - dv.dy0,
                         positions[other][1] - positions[vertex][1],
                         positions[other][2] - positions[vertex][2])

HookeAttraction(positions, vertex, other) ==
    AttractionFrom(positions, vertex, other,
                   DistanceVectorFrom(positions, vertex, other))

(***************************************************************************)
(* OneStepForceBasedLayout._coulomb_repulsion                              *)
(***************************************************************************)
\* Oriented without the swap: d = d1 - d0 whatever the centers
OrientedUnswapped(dc, d0, d1) == d1 - d0

\* if dc * (d1 - d0) < 0: d0, d1 = d1, d0; then d = d1 - d0
Oriented(dc, d0, d1) == IF NegativeProduct(dc, d1 - d0) THEN d0 - d1 ELSE d1 - d0

\* RepulsionAt with the opposite sign: a force that attracts
RepulsionAtAttracting(dx, dy, distance) ==
    IF Mul(distance, distance) = 0
    THEN [raised |-> "ZeroDivisionError"]
    ELSE ForceVector(
            Clamp(Div(Fx(electricalRepulsion), Mul(distance, distance))),
            dx, dy)

\* force = -electricalRepulsion / (distance*distance), clamped
RepulsionAt(dx, dy, distance) ==
    IF Mul(distance, distance) = 0
    THEN [raised |-> "ZeroDivisionError"]
    ELSE ForceVector(
            Clamp(Div(-Fx(electricalRepulsion), Mul(distance, distance))),
            dx, dy)

\* distance = math.sqrt(dx*dx + dy*dy)
RepulsionAlong(dx, dy) == RepulsionAt(dx, dy, Sqrt(Mul(dx, dx) + Mul(dy, dy)))

\* the two overlap swaps on the distance vector dv
RepulsionFrom(positions, vertex, other, dv) ==
    IF dv.raised # "none" THEN [raised |-> dv.raised]
    ELSE RepulsionAlong(
            Oriented(positions[other][1] - positions[vertex][1],
                     dv.dx0, dv.dx1),
            Oriented(positions[other][2] - positions[vertex][2],
                     dv.dy0, dv.dy1))

CoulombRepulsion(positions, vertex, other) ==
    RepulsionFrom(positions, vertex, other,
                  DistanceVectorFrom(positions, vertex, other))

(***************************************************************************)
(* OneStepForceBasedLayout.apply                                           *)
(***************************************************************************)
RECURSIVE SumOf(_, _)
\* the sum of f[k][field] over the keys k of f
SumOf(f, field) ==
    IF DOMAIN f = {} THEN 0
    ELSE LET k == CHOOSE k \in DOMAIN f : TRUE
         IN  f[k][field] + SumOf([j \in DOMAIN f \ {k} |-> f[j]], field)

\* the edges that pass the test edge.origin == vertex or edge.end == vertex
IncidentEdges(edges, vertex) ==
    {edge \in edges : edge.origin = vertex \/ edge.end = vertex}

\* other = edge.end if edge.origin == vertex else edge.origin
OtherEnd(edge, vertex) ==
    IF edge.origin = vertex THEN edge.end ELSE edge.origin

\* The forces computed for vertex: rep, one repulsion per other vertex of
\* positions; spr, one spring force per incident edge.
Interactions(positions, edges, vertex) ==
    [rep |-> [v \in DOMAIN positions \ {vertex} |->
                 CoulombRepulsion(positions, vertex, v)],
     spr |-> [edge \in IncidentEdges(edges, vertex) |->
                 HookeAttraction(positions, vertex, OtherEnd(edge, vertex))]]

\* The exceptions the force loop can raise while it handles one vertex: the
\* repulsion loop runs first; the edges are a set, iterated in any order.
RaisedAt(inter) ==
    IF \E v \in DOMAIN inter.rep : inter.rep[v].raised # "none"
    THEN {"ZeroDivisionError"}
    ELSE {inter.spr[e].raised : e \in DOMAIN inter.spr} \ {"none"}

\* forces[vertex] = fx, fy
Force(inter) ==
    <<SumOf(inter.rep, "fx") + SumOf(inter.spr, "fx"),
      SumOf(inter.rep, "fy") + SumOf(inter.spr, "fy")>>

\* NewPosition without the test on fixed: every vertex takes its displacement
NewPositionMoved(positions, force, fixed, vertex) ==
    <<positions[vertex][1] + force[1], positions[vertex][2] + force[2]>>

\* newPositions[vertex]
NewPosition(positions, force, fixed, vertex) ==
    IF vertex \notin fixed
    THEN <<positions[vertex][1] + force[1], positions[vertex][2] + force[2]>>
    ELSE <<positions[vertex][1], positions[vertex][2]>>

\* math.sqrt(fx*fx + fy*fy)
Magnitude(force) ==
    [m |-> Sqrt(Mul(force[1], force[1]) + Mul(force[2], force[2]))]

\* sumForces/len(newPositions) if len(newPositions) > 0 else 0
Residual(forces) ==
    IF Cardinality(DOMAIN forces) > 0
    THEN Quot(SumOf([v \in DOMAIN forces |-> Magnitude(forces[v])], "m"),
              Cardinality(DOMAIN forces))
    ELSE 0

\* ApplyResult with the fixed vertices left out of newPositions
ApplyResultSkipFixed(positions, fixed, forces) ==
    [raised |-> "none",
     newPositions |-> [v \in DOMAIN positions \ fixed |->
                          NewPosition(positions, forces[v], fixed, v)],
     residual |-> Residual(forces)]

\* ApplyResult with the forces of the fixed vertices left out of the residual
ApplyResultFreeResidual(positions, fixed, forces) ==
    [raised |-> "none",
     newPositions |-> [v \in DOMAIN positions |->
                          NewPosition(positions, forces[v], fixed, v)],
     residual |-> Residual([v \in DOMAIN forces \ fixed |-> forces[v]])]

\* the second loop of apply and its return value
ApplyResult(positions, fixed, forces) ==
    [raised |-> "none",
     newPositions |-> [v \in DOMAIN positions |->
                          NewPosition(positions, forces[v], fixed, v)],
     residual |-> Residual(forces)]

\* The outcomes of apply given the interactions of every vertex: the
\* exception of the first vertex whose forces raise (the dictionary may list
\* any vertex first), else the pair (newPositions, residual).
ApplyOutcomes(positions, fixed, inter) ==
    IF \E v \in DOMAIN inter : RaisedAt(inter[v]) # {}
    THEN {[raised |-> e] : e \in UNION {RaisedAt(inter[v]) : v \in DOMAIN inter}}
    ELSE {ApplyResult(positions, fixed,
                      [v \in DOMAIN inter |-> Force(inter[v])])}

OneStepApply(positions, edges, fixed) ==
    ApplyOutcomes(positions, fixed,
                  [v \in DOMAIN positions |->
                      Interactions(positions, edges, v)])

(***************************************************************************)
(* The state: a caller that holds a graph, calls ForceBasedLayout.apply    *)
(* on it, and drives OneStepForceBasedLayout.apply step by step, feeding   *)
(* each returned position map back as the next input.                      *)
(***************************************************************************)
VARIABLES
    vertices,        \* the initial position map: vertex -> <<x, y>>
    edges,           \* the set of edges [origin, end]
    fixed,           \* the set of fixed vertices
    positions,       \* the position map the caller feeds to the next step
    nsteps,          \* the number of single steps that returned so far
    last,            \* the last single step: its input and its outcome
    iterationNumber, \* ForceBasedLayout.iterationNumber
    forceThreshold,  \* ForceBasedLayout.forceThreshold
    pc,              \* ForceBasedLayout.apply: idle, loop, returned, raised
    i,               \* the number of iterations of the loop run so far
    np,              \* the local np of ForceBasedLayout.apply
    residuals,       \* the values taken by the local sf, in order
    \* CanvasGraph and its interactive layout (src/canvasGraph/canvas.py)
    layouting,       \* canvas.layouting, the Tk BooleanVar
    traced,          \* the write trace of CanvasFrame is set on layouting
    pending,         \* the number of iter_layout callbacks scheduled by after
    tickApplies,     \* the number of layout.apply calls made by iter_layout
    directApplies,   \* the number of layout.apply calls made by apply_layout
    lastTick,        \* what the last iter_layout callback run did
    \* the mouses of the canvas (src/canvasGraph/mouse.py) and its elements
    mouses,          \* canvas.mouses: combination -> list of mouses
    canvas,          \* canvas.vertices, canvas.edges, canvas.selected
    sm,              \* the SelectingMouse: elements, selecting, mouse_moved
    mm,              \* the MovingMouse: moving, position
    cm,              \* the CreatingMouse: starting
    trail,           \* the last event and the handlers called for it
    drag,            \* the drag in progress and the offsets it moved by
    \* DotLayout (src/src/canvasGraph/layout.py)
    pydot,           \* the module pydot was imported (else pydot is None)
    dot,             \* the last call of DotLayout.apply and its outcome
    \* Oval and Rectangle (src/tkCanvasGraph/shape.py)
    bbox,            \* the bounding box (x0, y0, x1, y1) of the shape
    target,          \* end, the ending point (x, y)
    hit              \* the last call of intersection and its result

graphVars == <<vertices, edges, fixed>>

stepVars == <<positions, nsteps, last>>

batchVars == <<iterationNumber, forceThreshold, pc, i, np, residuals>>

layoutVars == <<graphVars, stepVars, batchVars>>

tickVars == <<layouting, traced, pending, tickApplies, directApplies, lastTick>>

mouseVars == <<mouses, canvas, sm, mm, cm, trail, drag>>

parameterVars == <<electricalRepulsion>>

dotVars == <<pydot, dot>>

shapeVars == <<bbox, target, hit>>

vars == <<parameterVars, layoutVars, tickVars, mouseVars, dotVars, shapeVars>>

\* the variables the layout strategies do not touch
besidesLayout == <<parameterVars, tickVars, mouseVars, dotVars, shapeVars>>

\* the variables the interactive layout of the canvas does not touch
besidesTicks == <<parameterVars, layoutVars, mouseVars, dotVars, shapeVars>>

\* the variables the mouses and the elements of the canvas do not touch
besidesMouses == <<parameterVars, layoutVars, tickVars, dotVars, shapeVars>>

\* the variables DotLayout does not touch
besidesDot == <<parameterVars, layoutVars, tickVars, mouseVars, shapeVars>>

\* the variables the shapes do not touch
besidesShapes == <<parameterVars, layoutVars, tickVars, mouseVars, dotVars>>

\* the x coordinates and y coordinates of the initial placements (pixels)
XS == {0, 20, 70}

YS == {0, 25}

Edge(origin, end) == [origin |-> origin, end |-> end]

\* The initial placements: a at the origin, b anywhere on the grid, c on the
\* upper row of the grid.
Placements ==
    {q \in [Nodes -> XS \X YS] : q["a"] = <<0, 0>> /\ q["c"][2] = 25}

\* The initial position maps: the placements of the vertex sets {}, {a},
\* {a, b} and {a, b, c}.
PositionMaps ==
    {[v \in D |-> <<Fx(q[v][1]), Fx(q[v][2])>>] :
        D \in {{}, {"a"}, {"a", "b"}, Nodes}, q \in Placements}

\* The edge sets: no edge, a path, a cycle, a self-loop, and edges that are
\* dangling when the position map lacks b or c.
EdgeSets ==
    { {},
      {Edge("a", "b")},
      {Edge("a", "b"), Edge("c", "b")},
      {Edge("a", "a")},
      {Edge("b", "c")} }

FixedSets == { {}, {"a"}, {"b", "c"} }

\* the values given to forceThreshold: 0 and ThresholdPx
ThresholdPx == 20

Thresholds == {0, Fx(ThresholdPx)}

\* The arithmetic of a step stays within the integers of the model when the
\* coordinates and the slopes between centers are bounded.
InRange(pos) ==
    /\ \A v \in DOMAIN pos :
          Abs(pos[v][1]) <= Fx(MaxCoord) /\ Abs(pos[v][2]) <= Fx(MaxCoord)
    /\ \A v, o \in DOMAIN pos :
          pos[v][1] # pos[o][1] =>
             Abs(Div(pos[o][2] - pos[v][2], pos[o][1] - pos[v][1]))
                <= Fx(MaxSlope)

NoCall == [raised |-> "nocall"]

(***************************************************************************)
(* Graph elements, the observable selection and the objects the mouses     *)
(* work on.  An element is a record: a vertex with its creation number n,  *)
(* an edge with its creation number and the numbers of its two ends, or    *)
(* None.  The canvas record counts the elements created so far.            *)
(***************************************************************************)
None == [kind |-> "none", n |-> 0, origin |-> 0, end |-> 0]

\* Vertex(canvas): a vertex, numbered n
Vertex(n) == [kind |-> "vertex", n |-> n, origin |-> 0, end |-> 0]

\* Edge(canvas, origin, end): an edge, numbered n
EdgeElement(n, origin, end) ==
    [kind |-> "edge", n |-> n, origin |-> origin.n, end |-> end.n]

\* the value None of a position attribute
NoPosition == <<>>

\* the pointer positions of the events
Positions == {<<0, 0>>, <<3, 4>>}

\* the objects that answer to events: the generic Mouse and the four mouses
Mice == {"Mouse", "SelectingMouse", "SelectionModifyingMouse",
         "MovingMouse", "CreatingMouse"}

\* "<ButtonPress-1>", "<Shift-ButtonPress-1>", "<Control-ButtonPress-1>"
Combinations == {"1", "Shift-1", "Control-1"}

\* an empty canvas and an empty selection
EmptyCanvas ==
    [vertices |-> {}, edges |-> {}, selected |-> {}, notified |-> TRUE,
     created |-> 0]

\* the mouses as their constructors leave them
NewSelectingMouse(elements) ==
    [elements |-> elements, selecting |-> NoPosition, mouse_moved |-> FALSE]

NewMovingMouse == [moving |-> FALSE, position |-> NoPosition]

NewCreatingMouse == [starting |-> None]

NoEvent == [type |-> "none", combination |-> "none",
            called |-> <<>>, returned |-> <<>>]

\* no drag in progress: no press position, no offset moved by
NoDrag == [start |-> NoPosition, pointer |-> NoPosition, sum |-> <<0, 0>>,
          stray |-> FALSE]

\* a canvas without mouse, element or event
MousesIdle ==
    /\ mouses = <<>>
    /\ canvas = EmptyCanvas
    /\ sm = NewSelectingMouse("handles")
    /\ mm = NewMovingMouse
    /\ cm = NewCreatingMouse
    /\ trail = NoEvent
    /\ drag = NoDrag

\* DotLayout never called, in a program without pydot
DotIdle ==
    /\ pydot = FALSE
    /\ dot = NoCall

\* no shape was asked for an intersection
ShapesIdle ==
    /\ bbox = <<0, 0, 0, 0>>
    /\ target = <<0, 0>>
    /\ hit = NoCall

\* OneStepForceBasedLayout.__init__: self.electricalRepulsion = 500
ParametersIdle == electricalRepulsion = 500

\* CanvasGraph.__init__: layouting is False and nothing is scheduled
TicksIdle ==
    /\ layouting = FALSE
    /\ traced = FALSE
    /\ pending = 0
    /\ tickApplies = 0
    /\ directApplies = 0
    /\ lastTick = "none"

Init ==
    /\ ParametersIdle
    /\ TicksIdle
    /\ MousesIdle
    /\ DotIdle
    /\ ShapesIdle
    /\ vertices \in PositionMaps
    /\ edges \in EdgeSets
    /\ fixed \in FixedSets
    /\ positions = vertices
    /\ nsteps = 0
    /\ last = NoCall
    /\ iterationNumber = 0
    /\ forceThreshold = 0
    /\ pc = "idle"
    /\ i = 0
    /\ np = vertices
    /\ residuals = <<>>

(***************************************************************************)
(* One call of OneStepForceBasedLayout.apply by the caller, which feeds    *)
(* the returned map back as the next input.  An exception ends the chain.  *)
(***************************************************************************)
\* the caller may take one more single step
CanStep(bound) ==
    /\ pc # "loop"
    /\ nsteps < bound
    /\ last.raised \in {"nocall", "none"}
    /\ InRange(positions)

StepWithin(bound) ==
    /\ CanStep(bound)
    /\ \E out \in OneStepApply(positions, edges, fixed) :
          /\ last' = [out EXCEPT !.raised = out.raised] @@ [input |-> positions]
          /\ IF out.raised = "none"
             THEN positions' = out.newPositions /\ nsteps' = nsteps + 1
             ELSE UNCHANGED <<positions, nsteps>>
    /\ UNCHANGED <<graphVars, batchVars, besidesLayout>>

\* a chain of at most MaxSteps single steps
Step == StepWithin(MaxSteps)

(***************************************************************************)
(* ForceBasedLayout.apply(vertices, edges, fixed)                          *)
(***************************************************************************)
\* np = vertices; for i in range(self.iterationNumber):
BatchCall ==
    /\ pc = "idle"
    /\ last = NoCall
    /\ \E n \in 0 .. MaxIterationNumber, t \in Thresholds :
          /\ iterationNumber' = n
          /\ forceThreshold' = t
    /\ pc' = "loop"
    /\ i' = 0
    /\ np' = vertices
    /\ residuals' = <<>>
    /\ UNCHANGED <<graphVars, stepVars, besidesLayout>>

\* LoopDone one iteration early: range(self.iterationNumber - 1)
LoopDoneEarly(count, number) == count + 1 >= number

\* range(self.iterationNumber) is exhausted
LoopDone(count, number) == count >= number

\* Break with the comparison reversed
BreakAbove(sf, threshold) == sf > threshold

\* if sf < self.forceThreshold: break
Break(sf, threshold) == sf < threshold

\* the map the loop body passes to super().apply
LoopInput(current, initial) == current

\* BatchIter writing each step's positions into the caller's map in place
BatchIterInPlace ==
    /\ pc = "loop"
    /\ ~LoopDone(i, iterationNumber)
    /\ InRange(np)
    /\ \E out \in OneStepApply(LoopInput(np, vertices), edges, fixed) :
          IF out.raised = "none"
          THEN /\ np' = out.newPositions
               /\ vertices' = out.newPositions
               /\ residuals' = Append(residuals, out.residual)
               /\ i' = i + 1
               /\ pc' = IF Break(out.residual, forceThreshold)
                        THEN "returned" ELSE "loop"
          ELSE /\ pc' = out.raised
               /\ UNCHANGED <<vertices, np, residuals, i>>
    /\ UNCHANGED <<edges, fixed, stepVars, iterationNumber, forceThreshold,
                   besidesLayout>>

\* np, sf = super().apply(np, edges, fixed=fixed); break below the threshold
BatchIter ==
    /\ pc = "loop"
    /\ ~LoopDone(i, iterationNumber)
    /\ InRange(np)
    /\ \E out \in OneStepApply(LoopInput(np, vertices), edges, fixed) :
          IF out.raised = "none"
          THEN /\ np' = out.newPositions
               /\ residuals' = Append(residuals, out.residual)
               /\ i' = i + 1
               /\ pc' = IF Break(out.residual, forceThreshold)
                        THEN "returned" ELSE "loop"
          ELSE /\ pc' = out.raised
               /\ UNCHANGED <<np, residuals, i>>
    /\ UNCHANGED <<graphVars, stepVars, iterationNumber, forceThreshold,
                   besidesLayout>>

\* the loop ends without a break: return np
BatchReturn ==
    /\ pc = "loop"
    /\ LoopDone(i, iterationNumber)
    /\ pc' = "returned"
    /\ UNCHANGED <<graphVars, stepVars, iterationNumber, forceThreshold,
                   i, np, residuals, besidesLayout>>

Next == Step \/ BatchCall \/ BatchIter \/ BatchReturn

Spec == Init /\ [][Next]_vars

(***************************************************************************)
(* The interactive layout of CanvasGraph (src/canvasGraph/canvas.py).      *)
(* The callbacks scheduled with after(layout_interval, iter_layout) are    *)
(* counted in pending; Tk runs them one at a time, between two events.     *)
(***************************************************************************)
\* largest number of iter_layout callbacks scheduled at the same time
MaxPending == 3

\* largest number of layout.apply calls counted, per caller
MaxApplies == 3

\* the state of the layout strategies before any call, with an empty graph
LayoutIdle ==
    /\ vertices = <<>>
    /\ edges = {}
    /\ fixed = {}
    /\ positions = vertices
    /\ nsteps = 0
    /\ last = NoCall
    /\ iterationNumber = 0
    /\ forceThreshold = 0
    /\ pc = "idle"
    /\ i = 0
    /\ np = vertices
    /\ residuals = <<>>

\* a bare CanvasGraph, or the canvas of a CanvasFrame with its write trace
TickInit ==
    /\ ParametersIdle
    /\ LayoutIdle
    /\ MousesIdle
    /\ DotIdle
    /\ ShapesIdle
    /\ layouting = FALSE
    /\ traced \in BOOLEAN
    /\ pending = 0
    /\ tickApplies = 0
    /\ directApplies = 0
    /\ lastTick = "none"

\* layout.apply(...) returns or raises (the exceptions of the layout step)
LayoutOutcomes == {"returned", "raised"}

\* The callbacks pending after self.layouting.set(value): the write trace of
\* CanvasFrame runs "layouting.get() and apply_interactive_layout(osfbl)",
\* and that call, finding layouting True, only schedules one callback.
AfterWrite(value, count) == IF traced /\ value THEN count + 1 ELSE count

\* the callbacks pending after apply_interactive_layout(layout)
AfterInteractive(count) ==
    (IF ~layouting THEN AfterWrite(TRUE, count) ELSE count) + 1

\* the user writes layouting: checkbox, Control-i, or layouting.set(value)
SetLayouting ==
    /\ \E value \in BOOLEAN :
          /\ AfterWrite(value, pending) <= MaxPending
          /\ layouting' = value
          /\ pending' = AfterWrite(value, pending)
    /\ UNCHANGED <<traced, tickApplies, directApplies, lastTick, besidesTicks>>

\* canvas.apply_interactive_layout(layout)
ApplyInteractiveLayout ==
    /\ AfterInteractive(pending) <= MaxPending
    /\ layouting' = TRUE
    /\ pending' = AfterInteractive(pending)
    /\ UNCHANGED <<traced, tickApplies, directApplies, lastTick, besidesTicks>>

\* canvas.apply_layout(layout): layouting.set(False), layout.apply, refresh
ApplyLayout ==
    /\ directApplies < MaxApplies
    /\ layouting' = FALSE
    /\ pending' = AfterWrite(FALSE, pending)
    /\ directApplies' = directApplies + 1
    /\ UNCHANGED <<traced, tickApplies, lastTick, besidesTicks>>

\* Tick without the test of layouting on entry
TickUnguarded ==
    /\ pending > 0
    /\ tickApplies < MaxApplies
    /\ tickApplies' = tickApplies + 1
    /\ \E outcome \in LayoutOutcomes :
          IF outcome = "returned"
          THEN /\ pending' = IF layouting THEN pending ELSE pending - 1
               /\ lastTick' = "applied"
          ELSE /\ pending' = pending - 1
               /\ lastTick' = "raised"
    /\ UNCHANGED <<layouting, traced, directApplies, besidesTicks>>

\* Tk runs one pending iter_layout callback
Tick ==
    /\ pending > 0
    /\ IF ~layouting
       THEN /\ pending' = pending - 1
            /\ lastTick' = "skipped"
            /\ UNCHANGED tickApplies
       ELSE /\ tickApplies < MaxApplies
            /\ tickApplies' = tickApplies + 1
            /\ \E outcome \in LayoutOutcomes :
                  IF outcome = "returned"
                  THEN /\ pending' = (pending - 1) + 1
                       /\ lastTick' = "applied"
                  ELSE /\ pending' = pending - 1
                       /\ lastTick' = "raised"
    /\ UNCHANGED <<layouting, traced, directApplies, besidesTicks>>

TickNext == SetLayouting \/ ApplyInteractiveLayout \/ ApplyLayout \/ Tick

TickSpec == TickInit /\ [][TickNext]_vars

(***************************************************************************)
(* ObservableSet (src/src/canvasGraph/util.py): canvas.selected.  The      *)
(* field notified tells that the observers were notified after the last    *)
(* change of the contents.                                                 *)
(***************************************************************************)
\* A method named in _wrap_methods: notify() when the contents changed.
Wrapped(c, contents) ==
    IF contents # c.selected
    THEN [c EXCEPT !.selected = contents, !.notified = TRUE]
    ELSE c

\* A method of set that _wrap_methods does not name: no notification.
Unwrapped(c, contents) ==
    IF contents # c.selected
    THEN [c EXCEPT !.selected = contents, !.notified = FALSE]
    ELSE c

\* selected.add(element), selected.remove(element), selected.clear()
SelectedAdd(c, element) == Wrapped(c, c.selected \cup {element})

SelectedRemove(c, element) == Wrapped(c, c.selected \ {element})

SelectedClear(c) == Wrapped(c, {})

\* selected.update(elements) and selected.discard(element)
SelectedUpdate(c, elements) == Unwrapped(c, c.selected \cup elements)

SelectedDiscard(c, element) == Unwrapped(c, c.selected \ {element})

\* canvas.handles.values(): the elements drawn on the canvas
Handles(c) == c.vertices \cup c.edges

\* self.elements is None or element in self.elements
Selectable(mouse, c, element) ==
    mouse.elements = "None" \/ element \in Handles(c)

(***************************************************************************)
(* The handlers of the mouses.  Each takes the objects it may change, w =  *)
(* [canvas, sm, mm, cm], and the event, and returns the objects after the  *)
(* call with the value returned: pass is TRUE when the event must be       *)
(* passed to the next mouse.                                               *)
(***************************************************************************)
Handled(w, pass) == [w |-> w, pass |-> pass]

\* Mouse.pressed, Mouse.moved, Mouse.released: do nothing, pass the hand
MousePressed(w, event) == Handled(w, TRUE)

\* SelectingMouse.pressed
SelectingPressed(w, event) ==
    IF event.element # None
    THEN IF /\ Selectable(w.sm, w.canvas, event.element)
            /\ event.element \notin w.canvas.selected
         THEN Handled([w EXCEPT !.sm.mouse_moved = FALSE,
                                !.canvas = SelectedAdd(SelectedClear(@),
                                                       event.element)],
                      TRUE)
         ELSE Handled([w EXCEPT !.sm.mouse_moved = FALSE], TRUE)
    ELSE Handled([w EXCEPT !.sm.mouse_moved = FALSE,
                           !.sm.selecting = event.position,
                           !.canvas = SelectedClear(@)],
                 FALSE)

\* SelectingMouse.moved
SelectingMoved(w, event) ==
    Handled([w EXCEPT !.sm.mouse_moved = TRUE],
            w.sm.selecting = NoPosition)

\* the elements of the box that pass the test on self.elements
ToAdd(w, event) ==
    {element \in event.enclosed : Selectable(w.sm, w.canvas, element)}

\* SelectingMouse.released
SelectingReleased(w, event) ==
    IF w.sm.mouse_moved
    THEN IF w.sm.selecting = NoPosition
         THEN Handled([w EXCEPT !.sm.mouse_moved = FALSE], TRUE)
         ELSE Handled([w EXCEPT !.sm.mouse_moved = FALSE,
                                !.sm.selecting = NoPosition,
                                !.canvas = SelectedUpdate(SelectedClear(@),
                                                          ToAdd(w, event))],
                      FALSE)
    ELSE IF Selectable(w.sm, w.canvas, event.element)
         THEN Handled([w EXCEPT !.sm.selecting = NoPosition,
                                !.canvas = SelectedAdd(SelectedClear(@),
                                                       event.element)],
                      FALSE)
         ELSE Handled([w EXCEPT !.sm.selecting = NoPosition], FALSE)

\* SelectionModifyingMouse.pressed; its elements are those of SelectingMouse
ModifyingPressed(w, event) ==
    IF event.element \in w.canvas.selected
    THEN Handled([w EXCEPT !.canvas = SelectedRemove(@, event.element)], FALSE)
    ELSE IF Selectable(w.sm, w.canvas, event.element)
         THEN Handled([w EXCEPT !.canvas = SelectedAdd(@, event.element)],
                      FALSE)
         ELSE Handled(w, TRUE)

\* MovingMouse.pressed
MovingPressed(w, event) ==
    IF event.element # None /\ event.element \in w.canvas.selected
    THEN Handled([w EXCEPT !.mm.moving = TRUE,
                           !.mm.position = event.position],
                 FALSE)
    ELSE Handled(w, TRUE)

\* dx, dy = x - self.position[0], y - self.position[1]
Offset(position, from) ==
    <<position[1] - from[1], position[2] - from[2]>>

\* MovingMouse.moved: canvas.move_elements(self.selected, dx, dy)
MovingMoved(w, event) ==
    IF w.mm.moving
    THEN Handled([w EXCEPT !.moves = Append(@, Offset(event.position,
                                                      w.mm.position)),
                           !.mm.position = event.position],
                 FALSE)
    ELSE Handled(w, TRUE)

\* MovingMouse.released
MovingReleased(w, event) ==
    IF w.mm.moving
    THEN Handled([w EXCEPT !.mm.moving = FALSE,
                           !.mm.position = NoPosition],
                 FALSE)
    ELSE Handled(w, TRUE)

\* canvas.add_vertex(Vertex(canvas), position)
AddVertex(c) ==
    [c EXCEPT !.vertices = @ \cup {Vertex(c.created + 1)},
              !.created = @ + 1]

\* canvas.add_edge(Edge(canvas, origin, end))
AddEdge(c, origin, end) ==
    [c EXCEPT !.edges = @ \cup {EdgeElement(c.created + 1, origin, end)},
              !.created = @ + 1]

\* CreatingMouse.pressed
CreatingPressed(w, event) ==
    IF event.element # None /\ event.element \in w.canvas.vertices
    THEN Handled([w EXCEPT !.cm.starting = event.element], FALSE)
    ELSE Handled([w EXCEPT !.canvas = AddVertex(@)], FALSE)

\* CreatingMouse.moved
CreatingMoved(w, event) == Handled(w, w.cm.starting = None)

\* CreatingMouse.released
CreatingReleased(w, event) ==
    IF w.cm.starting # None
    THEN IF event.element # None /\ event.element \in w.canvas.vertices
         THEN Handled([w EXCEPT !.cm.starting = None,
                                !.canvas = AddEdge(@, w.cm.starting,
                                                   event.element)],
                      FALSE)
         ELSE Handled([w EXCEPT !.cm.starting = None], TRUE)
    ELSE Handled(w, TRUE)

(***************************************************************************)
(* CanvasGraph._pressed, _moved, _released: the chain of mouses.           *)
(***************************************************************************)
\* mouse.pressed(event), mouse.moved(event) or mouse.released(event);
\* SelectionModifyingMouse inherits moved and released from Mouse
Handle(mouse, w, event) ==
    CASE mouse = "SelectingMouse" /\ event.type = "pressed" ->
             SelectingPressed(w, event)
      [] mouse = "SelectingMouse" /\ event.type = "moved" ->
             SelectingMoved(w, event)
      [] mouse = "SelectingMouse" /\ event.type = "released" ->
             SelectingReleased(w, event)
      [] mouse = "SelectionModifyingMouse" /\ event.type = "pressed" ->
             ModifyingPressed(w, event)
      [] mouse = "MovingMouse" /\ event.type = "pressed" ->
             MovingPressed(w, event)
      [] mouse = "MovingMouse" /\ event.type = "moved" ->
             MovingMoved(w, event)
      [] mouse = "MovingMouse" /\ event.type = "released" ->
             MovingReleased(w, event)
      [] mouse = "CreatingMouse" /\ event.type = "pressed" ->
             CreatingPressed(w, event)
      [] mouse = "CreatingMouse" /\ event.type = "moved" ->
             CreatingMoved(w, event)
      [] mouse = "CreatingMouse" /\ event.type = "released" ->
             CreatingReleased(w, event)
      [] OTHER -> MousePressed(w, event)

\* what a dispatch leaves: the objects, the mouses called and their answers
Dispatched(w, called, returned) ==
    [w |-> w, called |-> called, returned |-> returned]

RECURSIVE DispatchFrom(_, _, _, _, _)
\* Dispatch going on to the next mouse whatever the handler returned
DispatchAll(h, chain, k, event, d) ==
    DispatchFrom([d EXCEPT !.w = h.w,
                           !.called = Append(@, chain[k]),
                           !.returned = Append(@, h.pass)],
                 chain, k + 1, event, TRUE)

\* if not mouse.pressed(event): break
DispatchNext(h, chain, k, event, d) ==
    DispatchFrom([d EXCEPT !.w = h.w,
                           !.called = Append(@, chain[k]),
                           !.returned = Append(@, h.pass)],
                 chain, k + 1, event, h.pass)

\* the rest of the loop, from the k-th mouse on, unless the loop was left
DispatchFrom(d, chain, k, event, going) ==
    IF going /\ k <= Len(chain)
    THEN DispatchNext(Handle(chain[k], d.w, event), chain, k, event, d)
    ELSE d

\* for mouse in self.mouses[(button, modifiers)]: ...
Dispatch(w, chain, event) ==
    DispatchFrom(Dispatched(w, <<>>, <<>>), chain, 1, event, TRUE)

\* if (button, modifiers) in self.mouses: ...
Chain(event) ==
    IF event.combination \in DOMAIN mouses
    THEN mouses[event.combination] ELSE <<>>

\* the objects the handlers work on, and moves, the (dx, dy) of the calls of
\* canvas.move_elements made for the event
World == [canvas |-> canvas, sm |-> sm, mm |-> mm, cm |-> cm, moves |-> <<>>]

\* largest number of elements created on the canvas
MaxCreated == 2

\* one more element can be created
Room == canvas.created < MaxCreated

\* the event reaches the canvas, which passes it along the chain
Deliver(event, d) ==
    /\ canvas' = d.w.canvas
    /\ sm' = d.w.sm
    /\ mm' = d.w.mm
    /\ cm' = d.w.cm
    /\ trail' = [type |-> event.type, combination |-> event.combination,
                 called |-> d.called, returned |-> d.returned]
    /\ UNCHANGED <<mouses, besidesMouses>>

\* self._current_element(): the element under the pointer, or None
CurrentElements == Handles(canvas) \cup {None}

\* the event built by _pressed, _moved or _released
MouseEvent(type, combination, element, position, enclosed) ==
    [type |-> type, combination |-> combination, element |-> element,
     position |-> position, enclosed |-> enclosed]

\* a handler of the chain may create an element
MayCreate(event) ==
    \E k \in DOMAIN Chain(event) : Chain(event)[k] = "CreatingMouse"

\* the canvas handles the event
Fire(event) ==
    /\ Deliver(event, Dispatch(World, Chain(event), event))
    /\ UNCHANGED drag

\* a button goes down on the canvas
Pressed ==
    /\ trail.type \in {"none", "released"}
    /\ \E combination \in Combinations, element \in CurrentElements,
          position \in Positions :
          /\ MayCreate(MouseEvent("pressed", combination, element,
                                  position, {}))
                => Room
          /\ Fire(MouseEvent("pressed", combination, element, position, {}))

\* the pointer moves with the button down
Moved ==
    /\ trail.type \in {"pressed", "moved"}
    /\ \E combination \in Combinations, element \in CurrentElements,
          position \in Positions :
          Fire(MouseEvent("moved", combination, element, position, {}))

\* What canvas.find_enclosed may find in the selection box: any elements
\* of the canvas; the box exists when SelectingMouse has started one.
Enclosable ==
    IF sm.selecting # NoPosition THEN SUBSET Handles(canvas) ELSE {{}}

\* the button goes up
Released ==
    /\ trail.type \in {"pressed", "moved"}
    /\ \E combination \in Combinations, element \in CurrentElements,
          position \in Positions, enclosed \in Enclosable :
          /\ MayCreate(MouseEvent("released", combination, element,
                                  position, enclosed))
                => Room
          /\ Fire(MouseEvent("released", combination, element, position,
                             enclosed))

(***************************************************************************)
(* The calls of the program on the canvas.                                 *)
(***************************************************************************)
\* largest number of mouses registered on the canvas, over all combinations
MaxRegistered == 3

RECURSIVE Registered(_)
\* the number of mouses registered in the lists of m
Registered(m) ==
    IF DOMAIN m = {} THEN 0
    ELSE Len(m[CHOOSE c \in DOMAIN m : TRUE])
            + Registered([c \in DOMAIN m \ {CHOOSE c \in DOMAIN m : TRUE}
                             |-> m[c]])

\* self.mouses[(button, modifiers)].append(mouse), in a new list if needed
Appended(m, mouse, combination) ==
    [c \in DOMAIN m \cup {combination} |->
        IF c = combination
        THEN (IF c \in DOMAIN m THEN Append(m[c], mouse) ELSE <<mouse>>)
        ELSE m[c]]

\* the mouses the program registers and unregisters: a generic Mouse and a
\* MovingMouse, each object possibly more than once
RegistryMice == {"Mouse", "MovingMouse"}

\* canvas.register_mouse(mouse, button, modifiers)
RegisterMouse ==
    /\ Registered(mouses) < MaxRegistered
    /\ \E mouse \in RegistryMice, combination \in Combinations :
          mouses' = Appended(mouses, mouse, combination)
    /\ UNCHANGED <<canvas, sm, mm, cm, trail, drag, besidesMouses>>

RECURSIVE WithoutFirst(_, _)
\* list.remove(mouse): the list without the first occurrence of mouse
WithoutFirst(list, mouse) ==
    IF list = <<>> THEN <<>>
    ELSE IF Head(list) = mouse THEN Tail(list)
    ELSE <<Head(list)>> \o WithoutFirst(Tail(list), mouse)

\* the lists after the removal, a list left empty being deleted
Removed(m, mouse, combination) ==
    [c \in {c \in DOMAIN m : c = combination =>
                                WithoutFirst(m[c], mouse) # <<>>} |->
        IF c = combination THEN WithoutFirst(m[c], mouse) ELSE m[c]]

\* if (button, modifiers) in self.mouses: ...
Unregistered(m, mouse, combination) ==
    IF combination \in DOMAIN m THEN Removed(m, mouse, combination) ELSE m

\* canvas.unregister_mouse(mouse, button, modifiers)
UnregisterMouse ==
    /\ \E mouse \in RegistryMice, combination \in Combinations :
          mouses' = Unregistered(mouses, mouse, combination)
    /\ UNCHANGED <<canvas, sm, mm, cm, trail, drag, besidesMouses>>

\* canvas.add_vertex(Vertex(canvas))
AddVertexCall ==
    /\ Room
    /\ canvas' = AddVertex(canvas)
    /\ UNCHANGED <<mouses, sm, mm, cm, trail, drag, besidesMouses>>

\* canvas.add_edge(Edge(canvas, origin, end)), origin and end on the canvas
AddEdgeCall ==
    /\ Room
    /\ \E origin \in canvas.vertices, end \in canvas.vertices :
          canvas' = AddEdge(canvas, origin, end)
    /\ UNCHANGED <<mouses, sm, mm, cm, trail, drag, besidesMouses>>

\* Incident without the edges of a vertex: the element is deleted alone
IncidentNone(c, element) == {}

\* the edges deleted with element: those that start or end at a vertex
Incident(c, element) ==
    IF element.kind = "vertex"
    THEN {edge \in c.edges : edge.origin = element.n \/ edge.end = element.n}
    ELSE {}

\* InteractiveCanvasGraph.delete_element(element); the edges of a vertex
\* are deleted first, each by the same method, which ends on
\* self.selected.discard(element)
Deleted(c, element) ==
    Unwrapped([c EXCEPT !.vertices = @ \ {element},
                        !.edges = @ \ (Incident(c, element) \cup {element})],
              c.selected \ (Incident(c, element) \cup {element}))

\* canvas.delete_element(element), for an element of the canvas
DeleteElement ==
    /\ \E element \in Handles(canvas) :
          canvas' = Deleted(canvas, element)
    /\ UNCHANGED <<mouses, sm, mm, cm, trail, drag, besidesMouses>>

\* InteractiveCanvasGraph.__init__: register_mouse(sm, "1", ""),
\* register_mouse(smm, "1", "Shift"), register_mouse(mm, "1", "")
InteractiveMouses ==
    Appended(Appended(Appended(<<>>, "SelectingMouse", "1"),
                      "SelectionModifyingMouse", "Shift-1"),
             "MovingMouse", "1")

\* An InteractiveCanvasGraph after its construction; the selecting mouses
\* are those of the constructor or mouses built with elements = None.
MouseInit ==
    /\ ParametersIdle
    /\ LayoutIdle
    /\ TicksIdle
    /\ DotIdle
    /\ ShapesIdle
    /\ mouses = InteractiveMouses
    /\ canvas = EmptyCanvas
    /\ sm \in {NewSelectingMouse("handles"), NewSelectingMouse("None")}
    /\ mm = NewMovingMouse
    /\ cm = NewCreatingMouse
    /\ trail = NoEvent
    /\ drag = NoDrag

MouseNext ==
    \/ Pressed
    \/ Moved
    \/ Released
    \/ AddVertexCall
    \/ AddEdgeCall
    \/ DeleteElement

MouseSpec == MouseInit /\ [][MouseNext]_vars

\* The canvas of __main__.py: an InteractiveCanvasGraph on which
\* register_mouse(CreatingMouse(canvas.vertices), "1", "Control") was called.
CreatingInit ==
    /\ ParametersIdle
    /\ LayoutIdle
    /\ TicksIdle
    /\ DotIdle
    /\ ShapesIdle
    /\ mouses = Appended(InteractiveMouses, "CreatingMouse", "Control-1")
    /\ canvas = EmptyCanvas
    /\ sm = NewSelectingMouse("handles")
    /\ mm = NewMovingMouse
    /\ cm = NewCreatingMouse
    /\ trail = NoEvent
    /\ drag = NoDrag

CreatingSpec == CreatingInit /\ [][MouseNext]_vars

\* A CanvasGraph after its construction: no mouse is registered.  The
\* program registers and unregisters mouses between the events.
RegistryInit ==
    /\ ParametersIdle
    /\ LayoutIdle
    /\ TicksIdle
    /\ DotIdle
    /\ ShapesIdle
    /\ MousesIdle

RegistryNext ==
    \/ RegisterMouse
    \/ UnregisterMouse
    \/ Pressed
    \/ Moved
    \/ Released

RegistrySpec == RegistryInit /\ [][RegistryNext]_vars

(***************************************************************************)
(* The drags of MovingMouse on an InteractiveCanvasGraph: the events of    *)
(* MouseSpec, with a record of the drag in progress.  A drag starts when   *)
(* MovingMouse.pressed takes a press on a selected element and ends with   *)
(* the next release the canvas dispatches.                                 *)
(***************************************************************************)
\* MovingMouse.pressed took the event: it was called and returned False
Started(d) ==
    \E k \in DOMAIN d.called : d.called[k] = "MovingMouse" /\ ~d.returned[k]

RECURSIVE SumMoves(_)
\* the sum of the offsets of the calls of move_elements in moves
SumMoves(moves) ==
    IF moves = <<>> THEN <<0, 0>>
    ELSE <<Head(moves)[1] + SumMoves(Tail(moves))[1],
           Head(moves)[2] + SumMoves(Tail(moves))[2]>>

\* the record after a press: a drag starts at event.position, or none does
AfterPress(event, d) ==
    IF Started(d)
    THEN [start |-> event.position, pointer |-> event.position,
          sum |-> <<0, 0>>, stray |-> FALSE]
    ELSE NoDrag

\* the record after a move event: the offsets passed to move_elements are
\* added to the drag in progress; without a drag, a call is a stray move
AfterMove(g, event, d) ==
    IF g.start # NoPosition
    THEN [g EXCEPT !.pointer = event.position,
                   !.sum = <<@[1] + SumMoves(d.w.moves)[1],
                             @[2] + SumMoves(d.w.moves)[2]>>]
    ELSE [g EXCEPT !.stray = d.w.moves # <<>>]

\* the record of the drag after the event
Tracked(g, event, d) ==
    CASE event.type = "pressed" -> AfterPress(event, d)
      [] event.type = "moved" -> AfterMove(g, event, d)
      [] OTHER -> NoDrag

\* the canvas handles the event; the drag is recorded
Track(event) ==
    /\ Deliver(event, Dispatch(World, Chain(event), event))
    /\ drag' = Tracked(drag, event, Dispatch(World, Chain(event), event))

\* a button goes down on the canvas
DragPressed ==
    /\ trail.type \in {"none", "released"}
    /\ \E combination \in Combinations, element \in CurrentElements,
          position \in Positions :
          Track(MouseEvent("pressed", combination, element, position, {}))

\* the pointer moves with the button down
DragMoved ==
    /\ trail.type \in {"pressed", "moved"}
    /\ \E combination \in Combinations, element \in CurrentElements,
          position \in Positions :
          Track(MouseEvent("moved", combination, element, position, {}))

\* the button goes up
DragReleased ==
    /\ trail.type \in {"pressed", "moved"}
    /\ \E combination \in Combinations, element \in CurrentElements,
          position \in Positions, enclosed \in Enclosable :
          Track(MouseEvent("released", combination, element, position,
                           enclosed))

\* an InteractiveCanvasGraph after its construction
DragInit ==
    /\ ParametersIdle
    /\ LayoutIdle
    /\ TicksIdle
    /\ DotIdle
    /\ ShapesIdle
    /\ mouses = InteractiveMouses
    /\ canvas = EmptyCanvas
    /\ sm = NewSelectingMouse("handles")
    /\ mm = NewMovingMouse
    /\ cm = NewCreatingMouse
    /\ trail = NoEvent
    /\ drag = NoDrag

DragNext ==
    \/ DragPressed
    \/ DragMoved
    \/ DragReleased
    \/ AddVertexCall

DragSpec == DragInit /\ [][DragNext]_vars

(***************************************************************************)
(* DotLayout (src/src/canvasGraph/layout.py).  The positions come from the *)
(* program fdp: any integer points.                                        *)
(***************************************************************************)
\* the points fdp may give to a vertex, parsed by int(float(...))
DotPoints == {<<0, 0>>, <<27, 18>>}

\* what a call of DotLayout.apply leaves: the exception raised if any,
\* whether the dot graph was started, whether a value was returned, and it
DotOutcome(raised, computing, returned, newPositions) ==
    [raised |-> raised, computing |-> computing, returned |-> returned,
     newPositions |-> newPositions]

\* The body of apply after the test on pydot: ids[edge.origin] and
\* ids[edge.end] raise KeyError for an end that is not in vertices, else
\* every vertex gets the point read from the output of fdp.
DotComputed(vs, es) ==
    IF \E edge \in es : edge.origin \notin DOMAIN vs \/ edge.end \notin DOMAIN vs
    THEN {DotOutcome("KeyError", TRUE, FALSE, <<>>)}
    ELSE {DotOutcome("none", TRUE, TRUE, q) : q \in [DOMAIN vs -> DotPoints]}

\* DotLayoutApply giving back the positions it received when pydot is None
DotLayoutApplyFallback(vs, es) ==
    IF ~pydot
    THEN {DotOutcome("none", FALSE, TRUE, vs)}
    ELSE DotComputed(vs, es)

\* DotLayout.apply(vertices, edges)
DotLayoutApply(vs, es) ==
    IF ~pydot
    THEN {DotOutcome("ImportError", FALSE, FALSE, <<>>)}
    ELSE DotComputed(vs, es)

\* a graph and a program where "import pydot" succeeded or raised ImportError
DotInit ==
    /\ ParametersIdle
    /\ TicksIdle
    /\ MousesIdle
    /\ ShapesIdle
    /\ vertices \in PositionMaps
    /\ edges \in EdgeSets
    /\ fixed = {}
    /\ positions = vertices
    /\ nsteps = 0
    /\ last = NoCall
    /\ iterationNumber = 0
    /\ forceThreshold = 0
    /\ pc = "idle"
    /\ i = 0
    /\ np = vertices
    /\ residuals = <<>>
    /\ pydot \in BOOLEAN
    /\ dot = NoCall

\* the caller calls DotLayout().apply(vertices, edges)
DotApply ==
    /\ \E out \in DotLayoutApply(vertices, edges) :
          dot' = out @@ [input |-> vertices]
    /\ UNCHANGED <<pydot, besidesDot>>

DotNext == DotApply

DotSpec == DotInit /\ [][DotNext]_vars

(***************************************************************************)
(* Two vertices a and b of 20x20 on a horizontal line, without edge, under *)
(* a layout whose electricalRepulsion was set by the caller.               *)
(***************************************************************************)
\* the x coordinates given to b (pixels), a being at the origin
ScenarioXS == {50, 60, 70, 80, 90, 100, 110, 120, 130, 140}

\* the values given to layout.electricalRepulsion
Repulsions == {100, 200, 300, 500}

\* positions = {a: (0, 0), b: (x, 0)}
ScenarioPositions(x) ==
    [v \in {"a", "b"} |-> IF v = "a" THEN <<0, 0>> ELSE <<Fx(x), 0>>]

ScenarioInit ==
    /\ TicksIdle
    /\ MousesIdle
    /\ DotIdle
    /\ ShapesIdle
    /\ electricalRepulsion \in Repulsions
    /\ vertices \in {ScenarioPositions(x) : x \in ScenarioXS}
    /\ edges = {}
    /\ fixed = {}
    /\ positions = vertices
    /\ nsteps = 0
    /\ last = NoCall
    /\ iterationNumber = 0
    /\ forceThreshold = 0
    /\ pc = "idle"
    /\ i = 0
    /\ np = vertices
    /\ residuals = <<>>

ScenarioNext == Step

ScenarioSpec == ScenarioInit /\ [][ScenarioNext]_vars

(***************************************************************************)
(* Oval.intersection and Rectangle.intersection                            *)
(* (src/tkCanvasGraph/shape.py), on bounding boxes of non-zero width and   *)
(* height, for which the square roots and the slope m divide safely.       *)
(***************************************************************************)
\* xoc, yoc = (xo1 + xo0) / 2, (yo1 + yo0) / 2
Center(b) == <<Quot(b[3] + b[1], 2), Quot(b[4] + b[2], 2)>>

\* ao = xo1 - xoc, bo = yo1 - yoc
HalfAxes(b) == <<b[3] - Center(b)[1], b[4] - Center(b)[2]>>

\* dox and doy given the square root den
OvalAlong(ao, bo, m, den) ==
    <<Div(Mul(ao, bo), den), Div(Mul(Mul(ao, bo), m), den)>>

\* math.sqrt(ao * ao * m * m + bo * bo)
OvalSlanted(ao, bo, m) ==
    OvalAlong(ao, bo, m, Sqrt(Mul(Mul(Mul(ao, ao), m), m) + Mul(bo, bo)))

\* if xec != xoc: ... else: dox = 0; doy = bo * (-1 if yec > yoc else 1)
OvalOffsets(h, c, e) ==
    IF e[1] # c[1]
    THEN OvalSlanted(h[1], h[2], Div(e[2] - c[2], e[1] - c[1]))
    ELSE <<0, h[2] * (IF e[2] > c[2] THEN -1 ELSE 1)>>

\* OvalPoint adding the offsets whatever the side of the ending point
OvalPointUnsigned(c, e, d) == <<c[1] + d[1], c[2] + d[2]>>

\* (xoc + dox if xec >= xoc else xoc - dox,
\*  yoc + doy if xec > xoc else yoc - doy)
OvalPoint(c, e, d) ==
    <<IF e[1] >= c[1] THEN c[1] + d[1] ELSE c[1] - d[1],
      IF e[1] > c[1] THEN c[2] + d[2] ELSE c[2] - d[2]>>

\* Oval.intersection(bbox, end)
OvalIntersection(b, e) ==
    OvalPoint(Center(b), e, OvalOffsets(HalfAxes(b), Center(b), e))

\* if m == 0: dox = xo1 - xoc; doy = 0
\* else: dox = min(xo1 - xoc, (yo1 - yoc) / m)
\*       doy = min(yo1 - yoc, (xo1 - xoc) * m)
RectangleSlanted(h, m) ==
    IF m = 0
    THEN <<h[1], 0>>
    ELSE <<Min(h[1], Div(h[2], m)), Min(h[2], Mul(h[1], m))>>

\* if xec != xoc: m = abs((yec - yoc) / (xec - xoc)) ...
\* else: dox = 0; doy = yo1 - yoc
RectangleOffsets(h, c, e) ==
    IF e[1] # c[1]
    THEN RectangleSlanted(h, Abs(Div(e[2] - c[2], e[1] - c[1])))
    ELSE <<0, h[2]>>

\* (xoc + dox if xec > xoc else xoc - dox,
\*  yoc + doy if yec > yoc else yoc - doy)
RectanglePoint(c, e, d) ==
    <<IF e[1] > c[1] THEN c[1] + d[1] ELSE c[1] - d[1],
      IF e[2] > c[2] THEN c[2] + d[2] ELSE c[2] - d[2]>>

\* Rectangle.intersection(bbox, end)
RectangleIntersection(b, e) ==
    RectanglePoint(Center(b), e, RectangleOffsets(HalfAxes(b), Center(b), e))

\* the bounding boxes (pixels): a square, a wide box and a tall box
Boxes == {<<0, 0, 20, 20>>, <<0, 0, 40, 20>>, <<-10, -20, 10, 20>>}

\* the coordinates of the ending points (pixels); the centers of the boxes
\* are among the points, and so are points above, below and beside them
EndXS == {-30, 0, 10, 13, 20, 50}

EndYS == {-30, 0, 10, 25, 50}

ShapeInit ==
    /\ ParametersIdle
    /\ LayoutIdle
    /\ TicksIdle
    /\ MousesIdle
    /\ DotIdle
    /\ bbox \in {<<Fx(b[1]), Fx(b[2]), Fx(b[3]), Fx(b[4])>> : b \in Boxes}
    /\ target \in {<<Fx(x), Fx(y)>> : x \in EndXS, y \in EndYS}
    /\ hit = NoCall

\* Oval().intersection(bbox, end)
OvalIntersect ==
    /\ hit' = [raised |-> "none", shape |-> "Oval",
               point |-> OvalIntersection(bbox, target)]
    /\ UNCHANGED <<bbox, target, besidesShapes>>

\* Rectangle().intersection(bbox, end)
RectangleIntersect ==
    /\ hit' = [raised |-> "none", shape |-> "Rectangle",
               point |-> RectangleIntersection(bbox, target)]
    /\ UNCHANGED <<bbox, target, besidesShapes>>

ShapeNext == OvalIntersect \/ RectangleIntersect

ShapeSpec == ShapeInit /\ [][ShapeNext]_vars

(***************************************************************************)
(* Two vertices a and b of 20x20 joined by one edge, placed on a           *)
(* horizontal line around the origin, and a caller that repeats the single *)
(* step for as long as it is allowed to (the tick chain of the canvas).    *)
(***************************************************************************)
\* largest number of repeated single steps
MaxRepeats == 60

\* half the distance between the centers at the start (pixels): the
\* vertices are apart, much closer or much farther than the rest length
\* (about 127 pixels between the centers)
ConvergeXS == {15, 35, 100, 125, 150}

\* positions = {a: (-x, 0), b: (x, 0)}
ConvergePositions(x) ==
    [v \in {"a", "b"} |-> IF v = "a" THEN <<-Fx(x), 0>> ELSE <<Fx(x), 0>>]

ConvergeInit ==
    /\ ParametersIdle
    /\ TicksIdle
    /\ MousesIdle
    /\ DotIdle
    /\ ShapesIdle
    /\ vertices \in {ConvergePositions(x) : x \in ConvergeXS}
    /\ edges = {Edge("a", "b")}
    /\ fixed = {}
    /\ positions = vertices
    /\ nsteps = 0
    /\ last = NoCall
    /\ iterationNumber = 0
    /\ forceThreshold = 0
    /\ pc = "idle"
    /\ i = 0
    /\ np = vertices
    /\ residuals = <<>>

\* one more single step on the positions returned by the last one
Repeat == StepWithin(MaxRepeats)

ConvergeNext == Repeat

\* a repeated step that returns: one more step is counted
Returns == CanStep(MaxRepeats) /\ nsteps' = nsteps + 1

\* The caller goes on stepping, as the tick chain of the canvas does while
\* layouting is True: as long as it may take a step, a step returns (a step
\* that raises ends the chain).
ConvergeSpec == ConvergeInit /\ [][ConvergeNext]_vars /\ WF_nsteps(Returns)

(***************************************************************************)
(* Properties of the step and of the batch loop.                           *)
(***************************************************************************)
\* the last single step returned normally
Stepped == last.raised = "none"

\* the fixed vertices that are keys of the position map pos
Pinned(pos) == fixed \cap DOMAIN pos

\* C1: a single step returns, for every vertex of the fixed set, exactly the
\* coordinates it had in the input map, whatever force acts on it.
C1_FixedSetInvariance ==
    Stepped => \A n \in Pinned(last.input) :
                  last.newPositions[n] = last.input[n]

\* a step returned that computed a non-zero force for a fixed vertex
C1_Witness ==
    /\ Stepped
    /\ \E n \in Pinned(last.input) :
          /\ Force(Interactions(last.input, edges, n)) # <<0, 0>>
          /\ last.newPositions[n] = last.input[n]

\* C2: the map returned by a single step, and the map returned by
\* ForceBasedLayout.apply, have exactly the keys of the input map.
C2_KeySetPreservation ==
    /\ Stepped => DOMAIN last.newPositions = DOMAIN last.input
    /\ pc = "returned" => DOMAIN np = DOMAIN vertices

\* a step returned on a map of three vertices with edges and fixed vertices,
\* and a batch run of at least one iteration returned too
C2_Witness ==
    /\ Stepped
    /\ DOMAIN last.input = Nodes
    /\ edges # {}
    /\ Pinned(last.input) # {}
    /\ pc = "returned"
    /\ i > 0

\* C3: with forceThreshold = 0, ForceBasedLayout.apply run with
\* iterationNumber = N returns the positions reached by N chained single
\* steps from the same initial map.
C3_BatchStepEquivalence ==
    (pc = "returned" /\ forceThreshold = 0 /\ nsteps = iterationNumber)
        => np = positions

\* both runs made MaxIterationNumber steps and moved some vertex
C3_Witness ==
    /\ pc = "returned"
    /\ forceThreshold = 0
    /\ nsteps = iterationNumber
    /\ iterationNumber = MaxIterationNumber
    /\ np = positions
    /\ np # vertices

\* C4: ForceBasedLayout.apply performs at most iterationNumber steps; it
\* goes on only while no residual is below forceThreshold; it returns either
\* right after the first step whose residual is below forceThreshold or,
\* when there is none, after iterationNumber steps, and then returns the
\* positions of the last step performed.
C4_BatchTermination ==
    /\ i <= iterationNumber
    /\ Len(residuals) = i
    /\ \A k \in 1 .. i - 1 : ~(residuals[k] < forceThreshold)
    /\ pc = "loop" => \A k \in 1 .. i : ~(residuals[k] < forceThreshold)
    /\ pc = "returned" =>
          /\ i = iterationNumber \/ (i > 0 /\ residuals[i] < forceThreshold)
          /\ nsteps = i => np = positions

\* the iteration cap is exhausted without any residual below the threshold
C4_Witness ==
    /\ pc = "returned"
    /\ forceThreshold > 0
    /\ i = iterationNumber
    /\ i = MaxIterationNumber
    /\ \A k \in 1 .. i : residuals[k] >= forceThreshold
    /\ nsteps = i
    /\ np = positions

\* C10: through any number of chained single steps and through any run of
\* ForceBasedLayout.apply, every fixed vertex keeps its initial position.
C10_PinnedStayPinned ==
    \A n \in Pinned(vertices) :
        /\ positions[n] = vertices[n]
        /\ np[n] = vertices[n]

\* MaxSteps chained steps and a batch run of MaxIterationNumber iterations
\* moved the free vertices and left a fixed vertex in place
C10_Witness ==
    /\ nsteps = MaxSteps
    /\ pc = "returned"
    /\ i = MaxIterationNumber
    /\ Pinned(vertices) # {}
    /\ \E v \in DOMAIN vertices \ fixed :
          positions[v] # vertices[v] /\ np[v] # vertices[v]
    /\ \A n \in Pinned(vertices) :
          positions[n] = vertices[n] /\ np[n] = vertices[n]

(***************************************************************************)
(* Properties of the force functions, stated on the input of the last      *)
(* single step, for which apply has called them.                           *)
(***************************************************************************)
\* a single step was called (it returned or raised)
Called == last.raised # "nocall"

\* the ordered pairs of distinct vertices of the last input
Pairs ==
    {pr \in (DOMAIN last.input) \X (DOMAIN last.input) : pr[1] # pr[2]}

\* the calls (vertex, other) of _hooke_attraction made on the last input
SpringCalls ==
    UNION {{<<v, OtherEnd(e, v)>> : e \in IncidentEdges(edges, v)} :
              v \in DOMAIN last.input}

\* the boundary-to-boundary vector from v to o is exactly (0, 0)
ZeroDistance(pos, v, o) ==
    LET dv == DistanceVectorFrom(pos, v, o)
    IN  dv.raised = "none" /\ dv.dx1 = dv.dx0 /\ dv.dy1 = dv.dy0

\* the code's overlap test holds between v and o, on either axis
Overlapping(pos, v, o) ==
    LET dv == DistanceVectorFrom(pos, v, o)
    IN  /\ dv.raised = "none"
        /\ \/ NegativeProduct(pos[o][1] - pos[v][1], dv.dx1 - dv.dx0)
           \/ NegativeProduct(pos[o][2] - pos[v][2], dv.dy1 - dv.dy0)

\* C5: for an edge (A, A) with A in the position map, the spring force
\* computed on A is returned without a division error and is (0, 0).
C5_SelfLoopSafety ==
    Called =>
        \A e \in edges :
            (e.origin = e.end /\ e.origin \in DOMAIN last.input) =>
                LET h == HookeAttraction(last.input, e.origin, e.end)
                IN  h.raised = "none" /\ h.fx = 0 /\ h.fy = 0

\* C6: for two distinct vertices at boundary-to-boundary distance zero, the
\* repulsion is returned without a division error, with a coefficient of
\* magnitude maxForce.
C6_ZeroDistanceClamped ==
    Called =>
        \A pr \in Pairs :
            ZeroDistance(last.input, pr[1], pr[2]) =>
                LET r == CoulombRepulsion(last.input, pr[1], pr[2])
                IN  r.raised = "none" /\ Abs(r.force) = Fx(maxForce)

\* C7: a step whose edge set holds an edge with an endpoint that is no key
\* of the position map raises KeyError.
C7_MissingNodeRaises ==
    (/\ Called
     /\ \E e \in edges : e.origin \notin DOMAIN last.input
                            \/ e.end \notin DOMAIN last.input)
        => last.raised = "KeyError"

\* C8 as stated: every repulsion vector and every spring vector returned has
\* a magnitude of at most maxForce.
C8_VectorWithinMaxForce ==
    Called =>
        /\ \A pr \in Pairs :
              LET r == CoulombRepulsion(last.input, pr[1], pr[2])
              IN  r.raised = "none" =>
                     Magnitude(<<r.fx, r.fy>>).m <= Fx(maxForce)
        /\ \A pr \in SpringCalls :
              LET h == HookeAttraction(last.input, pr[1], pr[2])
              IN  h.raised = "none" =>
                     Magnitude(<<h.fx, h.fy>>).m <= Fx(maxForce)

\* the coefficient of a returned force is within maxForce, and so is each
\* component of the force relative to the component of the distance vector
CoefficientClamped(f) ==
    f.raised = "none" =>
        /\ Abs(f.force) <= Fx(maxForce)
        /\ Abs(f.fx) <= maxForce * Abs(f.dx)
        /\ Abs(f.fy) <= maxForce * Abs(f.dy)

\* C8 amended: the scalar coefficient of every returned repulsion and spring
\* force lies in [-maxForce, maxForce], so that |fx| <= maxForce * |dx| and
\* |fy| <= maxForce * |dy| for the boundary-to-boundary vector (dx, dy).
C8_CoefficientWithinMaxForce ==
    Called =>
        /\ \A pr \in Pairs :
              CoefficientClamped(CoulombRepulsion(last.input, pr[1], pr[2]))
        /\ \A pr \in SpringCalls :
              CoefficientClamped(HookeAttraction(last.input, pr[1], pr[2]))

\* a repulsion whose coefficient is clamped to -maxForce and whose vector is
\* longer than maxForce
C8_Witness ==
    /\ Called
    /\ \E pr \in Pairs :
          LET r == CoulombRepulsion(last.input, pr[1], pr[2])
          IN  /\ r.raised = "none"
              /\ r.force = -Fx(maxForce)
              /\ Magnitude(<<r.fx, r.fy>>).m > Fx(maxForce)

\* C9: at a placement where the two vertices do not overlap and both
\* repulsions are returned, the repulsion of B on A is the opposite of the
\* repulsion of A on B.
C9_RepulsionSymmetry ==
    Called =>
        \A pr \in Pairs :
            LET r1 == CoulombRepulsion(last.input, pr[1], pr[2])
                r2 == CoulombRepulsion(last.input, pr[2], pr[1])
            IN  (/\ r1.raised = "none"
                 /\ r2.raised = "none"
                 /\ ~Overlapping(last.input, pr[1], pr[2]))
                    => r1.fx = -r2.fx /\ r1.fy = -r2.fy

\* two vertices of different sizes, neither horizontally nor vertically
\* aligned, not overlapping, repel each other with opposite non-zero forces
C9_Witness ==
    /\ Called
    /\ \E pr \in Pairs :
          LET r1 == CoulombRepulsion(last.input, pr[1], pr[2])
              r2 == CoulombRepulsion(last.input, pr[2], pr[1])
          IN  /\ Dimensions(pr[1]) # Dimensions(pr[2])
              /\ last.input[pr[1]][1] # last.input[pr[2]][1]
              /\ last.input[pr[1]][2] # last.input[pr[2]][2]
              /\ r1.raised = "none"
              /\ r2.raised = "none"
              /\ ~Overlapping(last.input, pr[1], pr[2])
              /\ r1.fx # 0 /\ r1.fy # 0
              /\ r1.fx = -r2.fx /\ r1.fy = -r2.fy

(***************************************************************************)
(* Overlapping shapes.                                                     *)
(***************************************************************************)
\* the length of the vector (x, y)
Length(x, y) == Sqrt(Mul(x, x) + Mul(y, y))

\* The shapes of v and o overlap along the line through their centers: the
\* two radii measured on that line add up to more than the distance between
\* the centers.  Coincident centers and a shape inside the other are cases.
ShapesOverlap(pos, v, o) ==
    LET dv == DistanceVectorFrom(pos, v, o)
    IN  /\ dv.raised = "none"
        /\ Length(dv.dx0 - pos[v][1], dv.dy0 - pos[v][2])
             + Length(dv.dx1 - pos[o][1], dv.dy1 - pos[o][2])
           > Length(pos[o][1] - pos[v][1], pos[o][2] - pos[v][2])

\* C11: for every edge whose two endpoints have overlapping shapes, the
\* attraction computed for that edge is returned and is exactly (0, 0).
C11_NoAttractionThroughOverlap ==
    Called =>
        \A pr \in SpringCalls :
            (pr[1] # pr[2] /\ ShapesOverlap(last.input, pr[1], pr[2])) =>
                LET h == HookeAttraction(last.input, pr[1], pr[2])
                IN  h.raised = "none" /\ h.fx = 0 /\ h.fy = 0

(***************************************************************************)
(* The fixed set and the force computation.                                *)
(***************************************************************************)
\* the outcomes of a step on the last input with the fixed set F
Refixed(F) == OneStepApply(last.input, edges, F)

\* C12: a step run on the same positions and edges with any other fixed set
\* returns the same residual, and the same new position for every vertex
\* that is in neither fixed set.
C12_FixedOnlyFreezes ==
    Stepped =>
        \A F \in SUBSET DOMAIN last.input :
            \A out \in Refixed(F) :
                /\ out.raised = "none"
                /\ out.residual = last.residual
                /\ \A n \in DOMAIN last.input \ (F \cup fixed) :
                      out.newPositions[n] = last.newPositions[n]

\* a step with a fixed vertex on which a non-zero force acts, compared with
\* the step without fixed vertices: a free vertex moves alike in both
C12_Witness ==
    /\ Stepped
    /\ last.residual > 0
    /\ \E f \in Pinned(last.input) :
          Force(Interactions(last.input, edges, f)) # <<0, 0>>
    /\ \E n \in DOMAIN last.input \ fixed :
          /\ last.newPositions[n] # last.input[n]
          /\ \A out \in Refixed({}) :
                out.newPositions[n] = last.newPositions[n]

(***************************************************************************)
(* Statelessness of the strategies.                                        *)
(***************************************************************************)
\* The first single step and the first iteration of the batch loop are two
\* calls of OneStepForceBasedLayout.apply on the same map, edges and fixed
\* set: when both were made, in either order, they had the same outcome.
SameOutputs ==
    /\ (nsteps = 1 /\ Stepped /\ i >= 1) =>
          /\ residuals[1] = last.residual
          /\ i = 1 => np = last.newPositions
    /\ (nsteps = 0 /\ last.raised \notin {"nocall", "none"}) => i = 0

C14_StopIsEffective ==
    [][(~layouting /\ ~layouting') =>
          /\ tickApplies' = tickApplies
          /\ pending' <= pending
          /\ pending' < pending => lastTick' = "skipped"]_vars

\* the chain applied the layout, layouting was cleared, and the callback
\* left pending ran without applying: nothing is pending any more
C14_Witness ==
    /\ ~layouting
    /\ tickApplies > 0
    /\ lastTick = "skipped"
    /\ pending = 0

(***************************************************************************)
(* Properties of the mouses (MouseSpec, CreatingSpec).                     *)
(***************************************************************************)
\* the mouses registered for the combination of the last event
Registrations ==
    IF trail.combination \in DOMAIN mouses
    THEN mouses[trail.combination] ELSE <<>>

\* C15: the handlers called for an event are those of the first mouses
\* registered for its combination, in registration order; every mouse
\* called but the last returned a true value; and when a registered mouse
\* was not called, the last mouse called returned a false value.
C15_ChainOfResponsibility ==
    trail.type # "none" =>
        /\ Len(trail.called) <= Len(Registrations)
        /\ \A k \in 1 .. Len(trail.called) :
              trail.called[k] = Registrations[k]
        /\ \A k \in 1 .. Len(trail.called) - 1 : trail.returned[k]
        /\ Len(trail.called) < Len(Registrations) =>
              /\ Len(trail.called) >= 1
              /\ ~trail.returned[Len(trail.called)]

\* a release that SelectingMouse answered with a false value, so that
\* MovingMouse, registered after it and still moving, was not called
C15_Witness ==
    /\ trail.type = "released"
    /\ Registrations = <<"SelectingMouse", "MovingMouse">>
    /\ trail.called = <<"SelectingMouse">>
    /\ trail.returned = <<FALSE>>
    /\ mm.moving

\* C16: after every operation of the library the observers of
\* canvas.selected have been notified of its last change of contents.
C16_SelectionObservable == canvas.notified

\* C17: no event handled by CreatingMouse adds to the canvas an edge whose
\* origin is its end.
C17_NoSelfLoopCreated ==
    [][(trail' # trail /\ \E k \in DOMAIN trail'.called :
                              trail'.called[k] = "CreatingMouse")
          => \A edge \in canvas'.edges \ canvas.edges :
                edge.origin # edge.end]_vars

(***************************************************************************)
(* Properties of DotLayout (DotSpec).                                      *)
(***************************************************************************)
\* C18: when pydot is None, a call of DotLayout.apply raises ImportError
\* before the dot graph is started and returns nothing: neither the
\* positions it received nor positions computed otherwise.
C18_DotRaisesWithoutPydot ==
    (dot.raised # "nocall" /\ ~pydot) =>
        /\ dot.raised = "ImportError"
        /\ ~dot.computing
        /\ ~dot.returned

\* DotLayout.apply was called without pydot on a graph with vertices
C18_Witness ==
    /\ ~pydot
    /\ dot.raised = "ImportError"
    /\ DOMAIN dot.input = Nodes

(***************************************************************************)
(* Properties of the scenario with two vertices (ScenarioSpec).            *)
(***************************************************************************)
\* the last step was applied to a = (0, 0), b = (100, 0) with
\* electricalRepulsion = 100 (and maxForce = 10), and returned
ScenarioStepped ==
    /\ Stepped
    /\ electricalRepulsion = 100
    /\ maxForce = 10
    /\ last.input = ScenarioPositions(100)

\* C19: one step on a = (0, 0), b = (100, 0), both 20x20, no edge, with
\* electricalRepulsion = 100 and maxForce = 10 moves a by a strictly negative
\* x delta and b by a strictly positive x delta of the same magnitude and
\* leaves both y coordinates unchanged, so that a.x < 0 < 100 < b.x.
C19_RepulsionScenario ==
    ScenarioStepped =>
        /\ last.newPositions["a"][1] - last.input["a"][1] < 0
        /\ last.newPositions["b"][1] - last.input["b"][1] > 0
        /\ last.input["a"][1] - last.newPositions["a"][1]
              = last.newPositions["b"][1] - last.input["b"][1]
        /\ last.newPositions["a"][2] = last.input["a"][2]
        /\ last.newPositions["b"][2] = last.input["b"][2]
        /\ last.newPositions["a"][1] < 0
        /\ Fx(100) < last.newPositions["b"][1]

\* the first step of the scenario was taken
C19_Witness == ScenarioStepped /\ nsteps = 1

(***************************************************************************)
(* Properties of the shapes (ShapeSpec).                                   *)
(***************************************************************************)
\* the resolution of the boundary test of the oval, in hundredths
OvalTolerance == 2

\* the offsets of the returned point from the center of the box
HitOffset == <<hit.point[1] - Center(bbox)[1], hit.point[2] - Center(bbox)[2]>>

\* the point lies within the bounding box
WithinBox ==
    /\ bbox[1] <= hit.point[1] /\ hit.point[1] <= bbox[3]
    /\ bbox[2] <= hit.point[2] /\ hit.point[2] <= bbox[4]

\* the point lies on the ellipse, dox^2 / ao^2 + doy^2 / bo^2 = 1, or on a
\* side of the rectangle, |dox| = ao or |doy| = bo
OnBoundary ==
    IF hit.shape = "Oval"
    THEN Abs(Div(Mul(HitOffset[1], HitOffset[1]),
                 Mul(HalfAxes(bbox)[1], HalfAxes(bbox)[1]))
             + Div(Mul(HitOffset[2], HitOffset[2]),
                   Mul(HalfAxes(bbox)[2], HalfAxes(bbox)[2]))
             - Fx(1)) <= OvalTolerance
    ELSE \/ Abs(HitOffset[1]) = HalfAxes(bbox)[1]
         \/ Abs(HitOffset[2]) = HalfAxes(bbox)[2]

\* each offset is zero or has the sign of the offset of the ending point
FacesTarget ==
    /\ HitOffset[1] > 0 => target[1] > Center(bbox)[1]
    /\ HitOffset[1] < 0 => target[1] < Center(bbox)[1]
    /\ HitOffset[2] > 0 => target[2] > Center(bbox)[2]
    /\ HitOffset[2] < 0 => target[2] < Center(bbox)[2]

\* for an ending point vertically aligned with the center, no x offset
AlongY == target[1] = Center(bbox)[1] => HitOffset[1] = 0

Converged == Stepped /\ last.residual <= 0

NpIsCallersMap == i = 0

\* C22: the map returned by ForceBasedLayout.apply is not the object the
\* caller passed, whatever iterationNumber and the position map are (the
\* map returned by a single step is always the new dictionary newPositions).
C22_IndependentSnapshots == pc = "returned" => ~NpIsCallersMap


(***************************************************************************)
(* The direction of the repulsion (Spec)                                   *)
(***************************************************************************)
\* the component f of a force on a vertex at coordinate v is zero or points
\* away from the coordinate o of the other vertex
PointsAway(f, v, o) ==
    /\ (v > o) => f >= 0
    /\ (v < o) => f <= 0
    /\ (v = o) => f = 0

\* the pairs of Pairs with distinct centers whose repulsion is returned
Repelling ==
    {pr \in Pairs :
        /\ last.input[pr[1]] # last.input[pr[2]]
        /\ CoulombRepulsion(last.input, pr[1], pr[2]).raised = "none"}

\* C23: for two vertices with distinct centers, overlapping or not, each
\* component of the repulsion computed on a vertex is zero or has the sign
\* of vertex - other on that axis: the force never pulls the vertex towards
\* the other vertex's center.
C23_RepulsionPushesApart ==
    Called =>
        \A pr \in Repelling :
            /\ PointsAway(CoulombRepulsion(last.input, pr[1], pr[2]).fx,
                          last.input[pr[1]][1], last.input[pr[2]][1])
            /\ PointsAway(CoulombRepulsion(last.input, pr[1], pr[2]).fy,
                          last.input[pr[1]][2], last.input[pr[2]][2])

\* a step computed a non-zero repulsion between two overlapping vertices
\* with distinct centers
C23_Witness ==
    /\ Stepped
    /\ \E pr \in Repelling :
          /\ Overlapping(last.input, pr[1], pr[2])
          /\ CoulombRepulsion(last.input, pr[1], pr[2]).fx # 0


(***************************************************************************)
(* The chain of iter_layout callbacks (TickSpec)                           *)
(***************************************************************************)
\* C24: while layouting is and stays True, every iter_layout callback that
\* runs calls layout.apply exactly once and schedules exactly one further
\* callback, so that a callback is still pending after it.
C24_KeepsRunning ==
    [][(layouting /\ layouting' /\ tickApplies' # tickApplies) =>
          /\ tickApplies' = tickApplies + 1
          /\ pending' = pending
          /\ pending' >= 1]_vars

\* C28: on the canvas of a CanvasFrame, whose write trace is installed, at
\* most one iter_layout callback is pending at any time.
C28_AtMostOneChain == traced => pending <= 1


(***************************************************************************)
(* The graph held by the canvas (MouseSpec)                                *)
(***************************************************************************)
\* the numbers of the vertices of the canvas
VertexNumbers == {v.n : v \in canvas.vertices}

SumIsDisplacement ==
    (trail.type = "moved" /\ drag.start # NoPosition) =>
        drag.sum = Offset(drag.pointer, drag.start)

\* no move event outside a drag called move_elements
NoStrayMove == ~drag.stray

\* C26: for a drag that starts with a press at p0 on a selected element and
\* goes on with move events up to pn, the offsets passed to
\* canvas.move_elements sum to pn - p0; and a move event that is not part
\* of such a drag calls move_elements not at all.
C26_MovesByDisplacement == SumIsDisplacement /\ NoStrayMove


(***************************************************************************)
(* MovingMouse after a gesture (MouseSpec)                                 *)
(***************************************************************************)
\* C29: after every release the canvas dispatched, MovingMouse is idle:
\* moving is False and position is None.
C29_MovingMouseIdleAfterRelease ==
    trail.type = "released" =>
        mm.moving = FALSE /\ mm.position = NoPosition


(***************************************************************************)
(* The contents of the selection (MouseSpec)                               *)
(***************************************************************************)
\* C30: the selection holds only elements that are on the canvas: never
\* None, never a deleted element.
C30_SelectionOnCanvas == canvas.selected \subseteq Handles(canvas)


(***************************************************************************)
(* Registration of the mouses (RegistrySpec)                               *)
(***************************************************************************)
\* the events the canvas may get for the combination
EventsOf(combination) ==
    {MouseEvent(type, combination, element, position, {}) :
        type \in {"pressed", "moved", "released"},
        element \in CurrentElements, position \in Positions}

\* the mouse is called for the event
CalledFor(mouse, event) ==
    \E k \in DOMAIN Dispatch(World, Chain(event), event).called :
        Dispatch(World, Chain(event), event).called[k] = mouse

\* some event of the combination is passed to the mouse
Receives(mouse, combination) ==
    \E event \in EventsOf(combination) : CalledFor(mouse, event)

\* after unregister_mouse(mouse, button, modifiers) no event of the
\* combination is passed to the mouse
UnregisterIsEffective ==
    \A mouse \in RegistryMice, combination \in Combinations :
        mouses' = Unregistered(mouses, mouse, combination)
            => ~Receives(mouse, combination)'

\* no combination of canvas.mouses maps to an empty list
NoEmptyList == \A combination \in DOMAIN mouses : mouses[combination] # <<>>

\* C27: after unregister_mouse(mouse, button, modifiers) the mouse gets no
\* press, move or release event of that combination any more, and no
\* combination of canvas.mouses maps to an empty list.
C27_UnregisterEffective == [][UnregisterIsEffective]_vars /\ []NoEmptyList

====
